---- MODULE Spec2Model ----
(***************************************************************************)
(* Reservation engine of razor-spark-book: the NestJS ReservationService   *)
(* (createReservation / updateReservation / deleteReservation) over the    *)
(* reservation collection and the service catalog.                         *)
(*                                                                         *)
(* Time of day "HH:MM" is the pair <<hh, mm>>; strings of that shape are   *)
(* compared by the store lexicographically, which TimeLT reproduces.       *)
(* Instants are minutes counted from 00:00 UTC of the server's current     *)
(* calendar date; a calendar date is a day offset from that date.          *)
(***************************************************************************)
EXTENDS Integers, Sequences, FiniteSets, TLC

VARIABLES reservations, nextId, catalog, tz, last, inflight, browser

vars == <<reservations, nextId, catalog, tz, last, inflight, browser>>

----------------------------------------------------------------------------
(* Bounds and input domains *)

MaxRes == 2

MinutesPerDay == 24 * 60

None == "none"

BARBERS == {"John", "Mike", "Alex"}

Statuses == {"pending", "confirmed", "cancelled", "completed"}

ActiveStatuses == {"pending", "confirmed"}

ReqDates == {-1, 0}

ReqStartTimes == {<<10, 0>>, <<10, 45>>, <<23, 30>>}

ReqServiceIds == {<< >>, <<"s1">>, <<"s1", "s2">>, <<"s1", "s1">>, <<"sX">>}

(* The legacy single serviceId field and the serviceIds list of a request. *)
ReqServiceSel ==
  {[serviceId |-> None, serviceIds |-> l] : l \in ReqServiceIds}
    \cup {[serviceId |-> "s1", serviceIds |-> <<"sX">>]}

ReqStatus == {None, "confirmed"}

ReqUsers == {"u1"}

TzOffsets == {-720, 60}

ServiceOrder == <<"s1", "s2">>

InitialCatalog ==
  [s \in {"s1", "s2"} |->
     IF s = "s1"
     THEN [name |-> "Haircut", duration |-> 45, price |-> 35, isActive |-> TRUE]
     ELSE [name |-> "Beard Trim", duration |-> 15, price |-> 20, isActive |-> TRUE]]

Request(b, d, t, sel, st, u) ==
  [barberName |-> b, date |-> d, startTime |-> t, serviceId |-> sel.serviceId,
   serviceIds |-> sel.serviceIds, status |-> st, userId |-> u]

ListOnly(l) == [serviceId |-> None, serviceIds |-> l]

(* Requests for one barber over every date, start time and service         *)
(* selection; the same carrying a status field, for one selection; and for *)
(* a second barber and an unknown one, at one start time.                  *)
Requests ==
  {Request("John", d, t, sel, None, u) :
     d \in ReqDates, t \in ReqStartTimes, sel \in ReqServiceSel, u \in ReqUsers}
  \cup
  {Request("John", d, t, ListOnly(<<"s1">>), st, u) :
     d \in ReqDates, t \in ReqStartTimes, st \in ReqStatus, u \in ReqUsers}
  \cup
  {Request(b, d, <<10, 0>>, ListOnly(l), None, u) :
     b \in {"Mike", "Zed"}, d \in ReqDates, l \in {<< >>, <<"s1">>, <<"sX">>},
     u \in ReqUsers}

UpdateDtos ==
  {[status |-> s] : s \in Statuses} \cup {[startTime |-> <<10, 45>>]}

Ids == 1..MaxRes

(* The authenticated callers: req.user of two clients and of one admin. *)
Callers ==
  {[sub |-> "u1", role |-> "user"], [sub |-> "u2", role |-> "user"],
   [sub |-> "a1", role |-> "admin"]}

(* What a caller can ask for: one barber, today, two start times. *)
CallerDtos ==
  {Request("John", 0, t, ListOnly(<<"s1">>), None, None) : t \in {<<10, 0>>, <<10, 45>>}}

CallerUpdateDtos == {[status |-> "confirmed"], [status |-> "cancelled"]}

(* The query string of GET /reservations, << >> being no filter. *)
Filters ==
  {<< >>, [clientId |-> "u1"], [clientId |-> "u2"], [status |-> "pending"]}

ServiceIds == {"s1", "s2", "sX"}

(* The admin whose Dashboard is open, and what the Dashboard's requests    *)
(* run into: a response, or an error (no connection, an error status).     *)
DashboardAdmin == [sub |-> "a1", role |-> "admin"]

Transports == {"response", "error"}

(* The requests sent through axiosClient by a logged-in page, and what    *)
(* comes back for one; for POST /auth/refresh, also a 200 whose token is   *)
(* not of the form a.b.c.                                                   *)
HttpRequests == {"g1", "g2", "g3"}

Answers == {"ok", "unauthorized", "error"}

RefreshAnswers == Answers \cup {"invalid-token"}

(* The fetches one visit of the booking page issues, its user, and the    *)
(* bookings made meanwhile.                                                 *)
MaxFetches == 3

BookingUser == [sub |-> "u1", role |-> "user"]

BookingDtos ==
  {Request(b, 0, <<10, 0>>, ListOnly(<<"s1">>), None, None) : b \in BARBERS}

(* The bookings made during a Dashboard session. *)
DashboardDtos ==
  {Request("John", d, <<10, 0>>, ListOnly(<<"s1">>), None, None) : d \in {0, 1}}

(* The two RateLimiter instances of the AuthContext, windows in minutes. *)
Limiters ==
  [login |-> [maxAttempts |-> 5, windowMs |-> 15],
   register |-> [maxAttempts |-> 3, windowMs |-> 60]]

Phones == {"p1"}

(* How far the browser's clock, in minutes, runs while the login form and  *)
(* while the registration form is used, and in which steps.                 *)
MaxLoginClock == 16

MaxRegisterClock == 61

LoginClockSteps == {2, 14}

RegisterClockSteps == {2, 59}

(* The browser rendering the calendar: its UTC offset, and the instant of  *)
(* the render (12:30 UTC of the current date, which is the current date in  *)
(* every server and browser zone modelled).                                 *)
ClientTzOffsets == {-300, 60}

Nows == {12 * 60 + 30}

(* The caller whose page shows the grid. *)
GridCallers == {[sub |-> "u1", role |-> "user"]}

(* Cells of the weekly grid: barber, day of the week shown (as a day       *)
(* offset in the browser's zone) and working hour.                          *)
GridCells ==
  {[barberId |-> "John", day |-> g, startTime |-> <<10, 0>>] : g \in {-1, 0, 1}}
    \cup {[barberId |-> "John", day |-> 0, startTime |-> <<11, 0>>],
          [barberId |-> "Mike", day |-> 0, startTime |-> <<10, 0>>]}

(* What the booking page sends while the grid is shown. *)
GridDtos ==
  {Request("John", d, <<10, 0>>, ListOnly(<<"s1">>), None, None) : d \in {0, 1}}
    \cup {Request("John", 0, <<10, 45>>, ListOnly(<<"s1">>), None, None)}

(* What the dashboard sends: a status, or the reservation moved to the     *)
(* previous day (the date string is cast as new Date(string), 00:00 UTC of  *)
(* that day).                                                               *)
GridUpdateDtos ==
  {[status |-> st] : st \in Statuses} \cup {[date |-> 0 - MinutesPerDay]}

ServiceUpdateDtos == {[duration |-> 30, price |-> 40], [isActive |-> FALSE]}

(* Requests made while the catalog is being edited. *)
CatalogRequests ==
  {Request("John", 0, t, ListOnly(l), None, "u1") :
     t \in {<<10, 0>>, <<10, 45>>}, l \in {<<"s1">>, <<"s1", "s2">>}}

Procs == {"p1", "p2"}

----------------------------------------------------------------------------
(* Pure helpers *)

Range(s) == {s[i] : i \in 1..Len(s)}

RECURSIVE SumOver(_, _)
SumOver(s, field) ==
  IF s = << >> THEN 0 ELSE Head(s)[field] + SumOver(Tail(s), field)

TimeLT(a, b) == a[1] < b[1] \/ (a[1] = b[1] /\ a[2] < b[2])

ParseDate(d) == d * MinutesPerDay

LocalMidnightToday(offset) == 0 - offset

(* Variant: the comparison is made against the previous local midnight. *)
IsPastDateOffByOneDay(reservationDate, offset) ==
  reservationDate < LocalMidnightToday(offset) - MinutesPerDay

IsPastDate(reservationDate, offset) == reservationDate < LocalMidnightToday(offset)

SetHours(instant, offset, t) ==
  (((instant + offset) \div MinutesPerDay) * MinutesPerDay) + t[1] * 60 + t[2] - offset

ToTimeString(instant, offset) ==
  LET local == (instant + offset) % MinutesPerDay
  IN  <<local \div 60, local % 60>>

ResolveServiceIds(q) ==
  IF q.serviceId # None THEN <<q.serviceId>>
  ELSE IF Len(q.serviceIds) > 0 THEN q.serviceIds
  ELSE << >>

FindServices(cat, ids) ==
  LET found == SelectSeq(ServiceOrder, LAMBDA s : s \in DOMAIN cat /\ s \in Range(ids))
  IN  [i \in 1..Len(found) |->
         [serviceId |-> found[i], serviceName |-> cat[found[i]].name,
          duration |-> cat[found[i]].duration, price |-> cat[found[i]].price]]

(* Variant: the query without its status filter. *)
OverlapMatchesAnyStatus(r, barberName, reservationDate, startTime, endTime) ==
  /\ r.barberName = barberName
  /\ r.date = reservationDate
  /\ TimeLT(r.startTime, endTime)
  /\ TimeLT(startTime, r.endTime)

(* Variant: the query with $lte / $gte, closed intervals. *)
OverlapMatchesInclusive(r, barberName, reservationDate, startTime, endTime) ==
  /\ r.barberName = barberName
  /\ r.date = reservationDate
  /\ ~TimeLT(endTime, r.startTime)
  /\ ~TimeLT(r.endTime, startTime)
  /\ r.status \in ActiveStatuses

OverlapMatches(r, barberName, reservationDate, startTime, endTime) ==
  /\ r.barberName = barberName
  /\ r.date = reservationDate
  /\ TimeLT(r.startTime, endTime)
  /\ TimeLT(startTime, r.endTime)
  /\ r.status \in ActiveStatuses

(* Variant: a status carried by the request is honoured. *)
NewStatusFromRequest(q) == IF q.status # None THEN q.status ELSE "pending"

NewStatus(q) == "pending"

StartDate(offset, q) == SetHours(ParseDate(q.date), offset, q.startTime)

EndDate(startDate, totalDuration) == startDate + totalDuration

(* The reservation document createReservation builds (steps 5 and 8). *)
ReservationData(cat, offset, q) ==
  LET serviceIds == ResolveServiceIds(q)
      services == FindServices(cat, serviceIds)
      totalDuration == SumOver(services, "duration")
      endDate == EndDate(StartDate(offset, q), totalDuration)
  IN  [clientId |-> q.userId, barberName |-> q.barberName,
       date |-> ParseDate(q.date), startTime |-> q.startTime,
       endTime |-> ToTimeString(endDate, offset),
       serviceIds |-> serviceIds, services |-> services,
       totalDuration |-> totalDuration,
       totalPrice |-> SumOver(services, "price"),
       status |-> NewStatus(q)]

(* Steps 1-7 of createReservation: the error thrown, or "ok". *)
CreateOutcome(store, cat, offset, q) ==
  LET serviceIds == ResolveServiceIds(q)
      data == ReservationData(cat, offset, q)
  IN  IF q.barberName \notin BARBERS THEN "invalid-barber"
      ELSE IF IsPastDate(ParseDate(q.date), offset) THEN "past-date"
      ELSE IF serviceIds = << >> THEN "no-service-specified"
      ELSE IF Len(data.services) # Len(serviceIds) THEN "invalid-service"
      ELSE IF EndDate(StartDate(offset, q), data.totalDuration) <= StartDate(offset, q)
           THEN "degenerate-time-range"
      ELSE IF \E r \in store :
                OverlapMatches(r, q.barberName, data.date, q.startTime, data.endTime)
           THEN "slot-conflict"
      ELSE "ok"

WithId(data, id) ==
  [f \in DOMAIN data \cup {"id"} |-> IF f = "id" THEN id ELSE data[f]]

ApplyDto(r, dto) ==
  [f \in DOMAIN r |-> IF f \in DOMAIN dto THEN dto[f] ELSE r[f]]

Idle == [pc |-> "idle"]

(* A key the attempts map of a RateLimiter does not hold. *)
NoRecord == [count |-> 0, resetTime |-> 0 - 1]

(* The state held in the browser: its clock; the attempts map of each      *)
(* RateLimiter; as a record of what happened, the times of the attempts    *)
(* each limiter let pass during its last window; the reservations state of  *)
(* the admin Dashboard and its handleStatusUpdate call in flight; and, of  *)
(* axiosClient, isRefreshing, failedQueue, whether localStorage holds a     *)
(* refresh token, the POST /auth/refresh in flight, the request whose       *)
(* handler awaits it, and each request with its _retry mark; and, of the   *)
(* booking page, the selected barber, its reservations state, the number    *)
(* of fetches it has issued and each of them.                               *)
BrowserInit ==
  [clock |-> 0,
   attempts |-> [l \in DOMAIN Limiters |-> [k \in Phones |-> NoRecord]],
   passed |-> [l \in DOMAIN Limiters |-> [k \in Phones |-> << >>]],
   held |-> {},
   statusUpdate |-> Idle,
   isRefreshing |-> FALSE,
   failedQueue |-> << >>,
   hasRefreshToken |-> TRUE,
   refresh |-> "idle",
   refresher |-> None,
   requests |-> [r \in HttpRequests |-> [pc |-> "idle", retry |-> FALSE]],
   selectedBarber |-> None,
   bookingReservations |-> {},
   issued |-> 0,
   fetches |-> [i \in 1..MaxFetches |-> [pc |-> "none"]]]

----------------------------------------------------------------------------
(* State machine *)

Init ==
  /\ reservations = {}
  /\ nextId = 1
  /\ catalog = InitialCatalog
  /\ tz \in TzOffsets
  /\ last = [op |-> "none", result |-> "none"]
  /\ inflight = [p \in Procs |-> Idle]
  /\ browser = BrowserInit

(* Variant: the document is saved before the overlap query is consulted. *)
CreateReservationSaveFirst(q) ==
  /\ nextId <= MaxRes
  /\ LET outcome == CreateOutcome(reservations, catalog, tz, q)
     IN  /\ last' = [op |-> "create", result |-> outcome]
         /\ IF outcome \in {"ok", "slot-conflict"}
            THEN /\ reservations' =
                      reservations \cup {WithId(ReservationData(catalog, tz, q), nextId)}
                 /\ nextId' = nextId + 1
            ELSE UNCHANGED <<reservations, nextId>>
  /\ UNCHANGED <<catalog, tz, browser, inflight>>

(* ReservationService.createReservation, run to completion. *)
CreateReservation(q) ==
  /\ nextId <= MaxRes
  /\ LET outcome == CreateOutcome(reservations, catalog, tz, q)
     IN  /\ last' = [op |-> "create", result |-> outcome]
         /\ IF outcome = "ok"
            THEN /\ reservations' =
                      reservations \cup {WithId(ReservationData(catalog, tz, q), nextId)}
                 /\ nextId' = nextId + 1
            ELSE UNCHANGED <<reservations, nextId>>
  /\ UNCHANGED <<catalog, tz, browser, inflight>>

(* ReservationService.updateReservation: findByIdAndUpdate(id, {...dto}). *)
UpdateReservation(id, dto) ==
  /\ IF \E r \in reservations : r.id = id
     THEN /\ reservations' =
               {IF r.id = id THEN ApplyDto(r, dto) ELSE r : r \in reservations}
          /\ last' = [op |-> "update", result |-> "ok"]
     ELSE /\ UNCHANGED reservations
          /\ last' = [op |-> "update", result |-> "not-found"]
  /\ UNCHANGED <<nextId, catalog, tz, browser, inflight>>

(* ReservationService.deleteReservation: findByIdAndDelete(id). *)
DeleteReservation(id) ==
  /\ IF \E r \in reservations : r.id = id
     THEN /\ reservations' = {r \in reservations : r.id # id}
          /\ last' = [op |-> "delete", result |-> "ok"]
     ELSE /\ UNCHANGED reservations
          /\ last' = [op |-> "delete", result |-> "not-found"]
  /\ UNCHANGED <<nextId, catalog, tz, browser, inflight>>

Next ==
  \/ \E q \in Requests : CreateReservation(q)
  \/ \E id \in Ids, dto \in UpdateDtos : UpdateReservation(id, dto)
  \/ \E id \in Ids : DeleteReservation(id)

Spec == Init /\ [][Next]_vars

----------------------------------------------------------------------------
(* createReservation as the two awaits it is made of: the validation and   *)
(* the findOne of step 7 (CreateCheck), then reservation.save()            *)
(* (CreateSave). Two requests are in flight, one per process.              *)

CreateCheck(p, q) ==
  /\ inflight[p].pc = "idle"
  /\ LET outcome == CreateOutcome(reservations, catalog, tz, q)
     IN  IF outcome = "ok"
         THEN /\ inflight' = [inflight EXCEPT ![p] =
                     [pc |-> "checked", data |-> ReservationData(catalog, tz, q)]]
              /\ UNCHANGED last
         ELSE /\ inflight' = [inflight EXCEPT ![p] = [pc |-> "rejected", result |-> outcome]]
              /\ last' = [op |-> "create", result |-> outcome]
  /\ UNCHANGED <<reservations, nextId, catalog, tz, browser>>

CreateSave(p) ==
  /\ inflight[p].pc = "checked"
  /\ nextId <= MaxRes
  /\ reservations' = reservations \cup {WithId(inflight[p].data, nextId)}
  /\ nextId' = nextId + 1
  /\ inflight' = [inflight EXCEPT ![p] = [pc |-> "saved", data |-> inflight[p].data]]
  /\ last' = [op |-> "create", result |-> "ok"]
  /\ UNCHANGED <<catalog, tz, browser>>

NextRace ==
  \/ \E p \in Procs, q \in Requests : CreateCheck(p, q)
  \/ \E p \in Procs : CreateSave(p)

SpecRace == Init /\ [][NextRace]_vars

----------------------------------------------------------------------------
(* The service catalog under edit: ServiceService.update and               *)
(* ServiceService.remove beside createReservation.                         *)

(* Variant: the update is propagated into the snapshots of the stored      *)
(* reservations and their totals are recomputed.                            *)
ServiceUpdateCascading(id, dto) ==
  /\ IF id \in DOMAIN catalog
     THEN /\ catalog' = [catalog EXCEPT ![id] = ApplyDto(@, dto)]
          /\ reservations' =
               {LET services == FindServices(catalog', r.serviceIds)
                IN  [r EXCEPT !.services = services,
                              !.totalDuration = SumOver(services, "duration"),
                              !.totalPrice = SumOver(services, "price")]
                  : r \in reservations}
          /\ last' = [op |-> "service-update", result |-> "ok"]
     ELSE /\ UNCHANGED <<catalog, reservations>>
          /\ last' = [op |-> "service-update", result |-> "not-found"]
  /\ UNCHANGED <<nextId, tz, browser, inflight>>

(* ServiceService.update: findByIdAndUpdate(id, updateServiceDto). *)
ServiceUpdate(id, dto) ==
  /\ IF id \in DOMAIN catalog
     THEN /\ catalog' = [catalog EXCEPT ![id] = ApplyDto(@, dto)]
          /\ UNCHANGED reservations
          /\ last' = [op |-> "service-update", result |-> "ok"]
     ELSE /\ UNCHANGED <<catalog, reservations>>
          /\ last' = [op |-> "service-update", result |-> "not-found"]
  /\ UNCHANGED <<nextId, tz, browser, inflight>>

(* ServiceService.remove: findByIdAndDelete(id). *)
ServiceRemove(id) ==
  /\ IF id \in DOMAIN catalog
     THEN /\ catalog' = [s \in DOMAIN catalog \ {id} |-> catalog[s]]
          /\ last' = [op |-> "service-remove", result |-> "ok"]
     ELSE /\ UNCHANGED catalog
          /\ last' = [op |-> "service-remove", result |-> "not-found"]
  /\ UNCHANGED <<reservations, nextId, tz, browser, inflight>>

NextCatalog ==
  \/ \E q \in CatalogRequests : CreateReservation(q)
  \/ \E id \in ServiceIds, dto \in ServiceUpdateDtos : ServiceUpdate(id, dto)
  \/ \E id \in ServiceIds : ServiceRemove(id)

SpecCatalog == Init /\ [][NextCatalog]_vars

----------------------------------------------------------------------------
(* ReservationController: the handlers as an authenticated caller reaches  *)
(* them, each passing req.user through the checks the handler makes.       *)

(* Variant: the filters are spread over the caller's clientId. *)
GetReservationsFiltersLast(store, clientId, filters) ==
  LET query == [f \in DOMAIN filters \cup (IF clientId # None THEN {"clientId"} ELSE {})
                  |-> IF f \in DOMAIN filters THEN filters[f] ELSE clientId]
  IN  {r \in store : \A f \in DOMAIN query : r[f] = query[f]}

(* ReservationService.getReservations: query = {...filters}, then          *)
(* query.clientId = clientId when a clientId is given.                      *)
GetReservations(store, clientId, filters) ==
  LET query == [f \in DOMAIN filters \cup (IF clientId # None THEN {"clientId"} ELSE {})
                  |-> IF f = "clientId" /\ clientId # None THEN clientId ELSE filters[f]]
  IN  {r \in store : \A f \in DOMAIN query : r[f] = query[f]}

(* findAll's clientId: undefined for an admin, req.user.sub otherwise. *)
ScopeOf(caller) == IF caller.role = "admin" THEN None ELSE caller.sub

(* ReservationController.create: clientId = req.user.sub. *)
Create(caller, dto) ==
  /\ caller \in Callers
  /\ CreateReservation([dto EXCEPT !.userId = caller.sub])

(* ReservationController.findAll. *)
FindAll(caller, filters) ==
  /\ last' = [op |-> "list", result |-> "ok", caller |-> caller, filters |-> filters,
              rows |-> GetReservations(reservations, ScopeOf(caller), filters)]
  /\ UNCHANGED <<reservations, nextId, catalog, tz, browser, inflight>>

(* ReservationController.update: req.user is only required to exist. *)
Update(caller, id, dto) ==
  /\ caller \in Callers
  /\ UpdateReservation(id, dto)

(* ReservationController.remove: req.user is only required to exist. *)
Remove(caller, id) ==
  /\ caller \in Callers
  /\ DeleteReservation(id)

(* reservationService.cancelReservation of the client:                     *)
(* axiosClient.delete(`/reservations/${id}`), served by remove.            *)
CancelReservation(caller, id) ==
  /\ caller \in Callers
  /\ Remove(caller, id)

NextCallers ==
  \/ \E caller \in Callers, dto \in CallerDtos : Create(caller, dto)
  \/ \E caller \in Callers, filters \in Filters : FindAll(caller, filters)
  \/ \E caller \in Callers, id \in Ids, dto \in CallerUpdateDtos : Update(caller, id, dto)
  \/ \E caller \in Callers, id \in Ids : Remove(caller, id)
  \/ \E caller \in Callers, id \in Ids : CancelReservation(caller, id)

SpecCallers == Init /\ [][NextCallers]_vars

----------------------------------------------------------------------------
(* The calendar projection: Booking.calendarSlots maps the fetched         *)
(* reservations to slots, WeeklyCalendar.getSlotForDateTime projects one    *)
(* cell and the status switch renders its button.                           *)

LocalDay(instant, offset) == (instant + offset) \div MinutesPerDay

(* date-fns isSameDay, isToday and isPast in the browser's zone. *)
IsSameDay(a, b, offset) == LocalDay(a, offset) = LocalDay(b, offset)

IsToday(instant, now, offset) == IsSameDay(instant, now, offset)

IsPast(instant, now) == instant < now

(* A day of the grid: local midnight of that day in the browser. *)
GridDate(day, offset) == day * MinutesPerDay - offset

RECURSIVE SortById(_)
SortById(rows) ==
  IF rows = {} THEN << >>
  ELSE LET first == CHOOSE r \in rows : \A r2 \in rows : r.id <= r2.id
       IN  <<first>> \o SortById(rows \ {first})

(* One element of calendarSlots; date is new Date(r.date). *)
CalendarSlot(r) ==
  [id |-> r.id, barberId |-> r.barberName, date |-> r.date,
   startTime |-> r.startTime, endTime |-> r.endTime,
   isAvailable |-> (r.status = "cancelled"), status |-> r.status,
   services |-> r.services, reservationId |-> r.id]

CalendarSlots(rows) ==
  LET sorted == SortById(rows)
  IN  [i \in 1..Len(sorted) |-> CalendarSlot(sorted[i])]

(* The slot getSlotForDateTime makes up for a cell without a reservation. *)
NewSlot(barberId, date, startTime, isAvailable, status) ==
  [id |-> <<barberId, date, startTime>>, barberId |-> barberId, date |-> date,
   startTime |-> startTime, endTime |-> <<startTime[1], 59>>,
   isAvailable |-> isAvailable, status |-> status, services |-> << >>]

(* WeeklyCalendar.getSlotForDateTime; timeSlots.find takes the first match. *)
GetSlotForDateTime(timeSlots, busySlots, now, offset, barberId, date, startTime) ==
  LET slotDate == SetHours(date, offset, <<startTime[1], 0>>)
      found == SelectSeq(timeSlots,
                 LAMBDA slot : /\ slot.barberId = barberId
                               /\ IsSameDay(slot.date, date, offset)
                               /\ slot.startTime = startTime)
  IN  IF IsPast(slotDate, now) /\ ~IsToday(slotDate, now, offset)
      THEN NewSlot(barberId, date, startTime, FALSE, "past")
      ELSE IF found # << >>
      THEN LET existingSlot == Head(found)
           IN  IF existingSlot.status \in {"confirmed", "pending", "completed"}
               THEN [existingSlot EXCEPT !.isAvailable = FALSE, !.status = "reserved"]
               ELSE IF existingSlot.status = "cancelled"
               THEN [existingSlot EXCEPT !.isAvailable = TRUE, !.status = "available"]
               ELSE existingSlot
      ELSE IF \E busySlot \in busySlots :
                /\ busySlot.barberId = barberId
                /\ IsSameDay(busySlot.date, date, offset)
                /\ busySlot.startTime = startTime
      THEN NewSlot(barberId, date, startTime, FALSE, "reserved")
      ELSE NewSlot(barberId, date, startTime, TRUE, "available")

(* The status switch of the grid: the button's text and whether it is      *)
(* disabled.                                                                *)
Button(slot) ==
  CASE slot.status = "confirmed" -> [text |-> "Confirmed", isDisabled |-> TRUE]
    [] slot.status = "completed" -> [text |-> "Completed", isDisabled |-> TRUE]
    [] slot.status = "pending"   -> [text |-> "Pending", isDisabled |-> TRUE]
    [] slot.status = "cancelled" -> [text |-> "Available", isDisabled |-> FALSE]
    [] slot.status = "past"      -> [text |-> "Past", isDisabled |-> TRUE]
    [] slot.status = "available" -> [text |-> "Available", isDisabled |-> FALSE]
    [] OTHER -> IF ~slot.isAvailable
                THEN [text |-> "Reserved", isDisabled |-> TRUE]
                ELSE [text |-> "Available", isDisabled |-> FALSE]

(* The reservations the page of this caller holds after fetchReservations: *)
(* GET /reservations with no barber selected; the forBooking, includeAll    *)
(* and allUsers flags it sends name no field of a reservation.              *)
FetchedBy(caller) == GetReservations(reservations, ScopeOf(caller), << >>)

(* One cell of the grid rendered from a fresh fetch; busySlots is not      *)
(* passed by the page and defaults to the empty list.                       *)
Render(caller, now, offset, cell) ==
  /\ LET slot == GetSlotForDateTime(CalendarSlots(FetchedBy(caller)), {}, now, offset,
                    cell.barberId, GridDate(cell.day, offset), cell.startTime)
     IN  last' = [op |-> "render", result |-> "ok", caller |-> caller, now |-> now,
                  offset |-> offset, cell |-> cell, slot |-> slot,
                  button |-> Button(slot)]
  /\ UNCHANGED <<reservations, nextId, catalog, tz, browser, inflight>>

NextGrid ==
  \/ \E caller \in GridCallers, dto \in GridDtos : Create(caller, dto)
  \/ \E caller \in GridCallers, id \in Ids, dto \in GridUpdateDtos : Update(caller, id, dto)
  \/ \E caller \in GridCallers, now \in Nows, offset \in ClientTzOffsets, cell \in GridCells :
       Render(caller, now, offset, cell)

SpecGrid == Init /\ [][NextGrid]_vars

----------------------------------------------------------------------------
(* The admin Dashboard: its reservations state and handleStatusUpdate. *)

(* What getReservations returns to the Dashboard of an admin: params {}. *)
DashboardList == GetReservations(reservations, ScopeOf(DashboardAdmin), << >>)

(* Dashboard.fetchReservations after its await: the state is replaced only *)
(* when the fetched list differs from the reservations of the render that  *)
(* made the callback.                                                       *)
FetchedState(closure, held, validReservations) ==
  IF closure # validReservations THEN validReservations ELSE held

(* fetchReservations run by the mount effect or the 30 s interval, whose   *)
(* callback is the one of the latest render.                                *)
DashboardRefresh(transport) ==
  /\ browser' =
       [browser EXCEPT
          !.held = IF transport = "response"
                   THEN FetchedState(browser.held, browser.held, DashboardList)
                   ELSE @]
  /\ last' = [op |-> "refresh",
              result |-> IF transport = "response" THEN "ok" ELSE "error"]
  /\ UNCHANGED <<reservations, nextId, catalog, tz, inflight>>

(* The buttons of a row of the reservations table: Confirm and Cancel on  *)
(* a pending reservation, Complete on a confirmed one.                      *)
StatusButtons(status) ==
  CASE status = "pending" -> {"confirmed", "cancelled"}
    [] status = "confirmed" -> {"completed"}
    [] OTHER -> {}

(* handleStatusUpdate up to its first await: the optimistic update. The    *)
(* handler keeps the fetchReservations of the render it was made in, and   *)
(* with it that render's reservations.                                      *)
StatusUpdateStart(id, newStatus) ==
  /\ browser.statusUpdate.pc = "idle"
  /\ \E r \in browser.held : r.id = id /\ newStatus \in StatusButtons(r.status)
  /\ browser' =
       [browser EXCEPT
          !.held = {IF r.id = id THEN [r EXCEPT !.status = newStatus] ELSE r :
                      r \in browser.held},
          !.statusUpdate = [pc |-> "put", id |-> id, newStatus |-> newStatus,
                            closure |-> browser.held]]
  /\ last' = [op |-> "statusUpdateStart", result |-> "ok"]
  /\ UNCHANGED <<reservations, nextId, catalog, tz, inflight>>

(* PUT /reservations/:id {status} is answered: updateReservation at the    *)
(* server, or an error before it; then fetchReservations is called.         *)
StatusUpdatePut(transport) ==
  LET u == browser.statusUpdate
      found == \E r \in reservations : r.id = u.id
      applied == transport = "response" /\ found
  IN  /\ u.pc = "put"
      /\ reservations' =
           IF applied
           THEN {IF r.id = u.id THEN ApplyDto(r, [status |-> u.newStatus]) ELSE r :
                   r \in reservations}
           ELSE reservations
      /\ browser' =
           [browser EXCEPT
              !.statusUpdate =
                 [pc |-> "fetch", id |-> u.id, newStatus |-> u.newStatus,
                  closure |-> u.closure, failed |-> ~applied]]
      /\ last' = [op |-> "statusUpdatePut",
                  result |-> IF applied THEN "ok"
                             ELSE IF transport = "response" THEN "not-found"
                             ELSE "error"]
      /\ UNCHANGED <<nextId, catalog, tz, inflight>>

(* The fetchReservations awaited by handleStatusUpdate completes, in the   *)
(* try branch after a success and in the catch branch after a failure.     *)
StatusUpdateFetch(transport) ==
  LET u == browser.statusUpdate
  IN  /\ u.pc = "fetch"
      /\ browser' =
           [browser EXCEPT
              !.held = IF transport = "response"
                       THEN FetchedState(u.closure, browser.held, DashboardList)
                       ELSE @,
              !.statusUpdate = Idle]
      /\ last' = [op |-> "statusUpdate",
                  result |-> IF u.failed THEN "error" ELSE "updated",
                  id |-> u.id, newStatus |-> u.newStatus,
                  fetched |-> (transport = "response")]
      /\ UNCHANGED <<reservations, nextId, catalog, tz, inflight>>

NextDashboard ==
  \/ \E caller \in GridCallers, dto \in DashboardDtos : Create(caller, dto)
  \/ \E caller \in GridCallers, id \in Ids : Remove(caller, id)
  \/ \E transport \in Transports : DashboardRefresh(transport)
  \/ \E id \in Ids, newStatus \in Statuses : StatusUpdateStart(id, newStatus)
  \/ \E transport \in Transports : StatusUpdatePut(transport)
  \/ \E transport \in Transports : StatusUpdateFetch(transport)

SpecDashboard == Init /\ [][NextDashboard]_vars

----------------------------------------------------------------------------
(* axiosClient: the response interceptor that refreshes the access token. *)

(* A page sends a request. *)
SendRequest(r) ==
  /\ browser.requests[r].pc = "idle"
  /\ browser' = [browser EXCEPT !.requests[r].pc = "sent"]
  /\ last' = [op |-> "send", result |-> "ok"]
  /\ UNCHANGED <<reservations, nextId, catalog, tz, inflight>>

(* The response to a request passes the interceptor. On a 401 without      *)
(* _retry the request is queued while a refresh runs; otherwise it is       *)
(* marked, isRefreshing is set and authApi.refreshToken is called, which    *)
(* throws without a stored refresh token and posts /auth/refresh with one.  *)
Respond(r, answer) ==
  LET q == browser.requests[r]
  IN  /\ q.pc = "sent"
      /\ browser' =
           IF answer = "ok"
           THEN [browser EXCEPT !.requests[r].pc = "resolved"]
           ELSE IF answer = "unauthorized" /\ ~q.retry
           THEN IF browser.isRefreshing
                THEN [browser EXCEPT !.failedQueue = Append(@, r),
                                     !.requests[r].pc = "queued"]
                ELSE IF ~browser.hasRefreshToken
                THEN [browser EXCEPT !.requests[r] = [pc |-> "rejected", retry |-> TRUE]]
                ELSE [browser EXCEPT !.requests[r] = [pc |-> "refreshing", retry |-> TRUE],
                                     !.isRefreshing = TRUE,
                                     !.refresh = "sent",
                                     !.refresher = r]
           ELSE [browser EXCEPT !.requests[r].pc = "rejected"]
      /\ last' = [op |-> "respond", result |-> answer]
      /\ UNCHANGED <<reservations, nextId, catalog, tz, inflight>>

(* processQueue: with a token every queued request is sent again, with an  *)
(* error every queued request is rejected; a queued POST /auth/refresh is   *)
(* treated alike.                                                           *)
ProcessQueue(requests, failedQueue, pc) ==
  [r \in HttpRequests |->
     IF r \in Range(failedQueue) THEN [requests[r] EXCEPT !.pc = pc] ELSE requests[r]]

(* The response to POST /auth/refresh passes the same interceptor. A 401   *)
(* finds isRefreshing set, by the handler that awaits this very call, and   *)
(* puts the refresh request on failedQueue. A token of the right form is    *)
(* stored, the queue is processed and the awaiting request is sent again;   *)
(* anything else rejects the queue and the awaiting request and clears the  *)
(* stored tokens. Either way isRefreshing is cleared at the end.            *)
RefreshRespond(answer) ==
  /\ browser.refresh = "sent"
  /\ browser.isRefreshing
  /\ browser' =
       IF answer = "unauthorized"
       THEN [browser EXCEPT !.failedQueue = Append(@, "refresh"),
                            !.refresh = "queued"]
       ELSE IF answer = "ok"
       THEN [browser EXCEPT
               !.requests = [ProcessQueue(browser.requests, browser.failedQueue, "sent")
                               EXCEPT ![browser.refresher].pc = "sent"],
               !.failedQueue = << >>,
               !.refresh = "idle",
               !.refresher = None,
               !.isRefreshing = FALSE]
       ELSE [browser EXCEPT
               !.requests = [ProcessQueue(browser.requests, browser.failedQueue, "rejected")
                               EXCEPT ![browser.refresher].pc = "rejected"],
               !.failedQueue = << >>,
               !.hasRefreshToken = FALSE,
               !.refresh = "idle",
               !.refresher = None,
               !.isRefreshing = FALSE]
  /\ last' = [op |-> "refresh-respond", result |-> answer]
  /\ UNCHANGED <<reservations, nextId, catalog, tz, inflight>>

NextRefresh ==
  \/ \E r \in HttpRequests : SendRequest(r)
  \/ \E r \in HttpRequests, answer \in Answers : Respond(r, answer)
  \/ \E answer \in RefreshAnswers : RefreshRespond(answer)

SpecRefresh == Init /\ [][NextRefresh]_vars

(* Every request in flight is answered in the end: axios gives up on a     *)
(* request after its timeout of 30 s and rejects it.                        *)
SpecRefreshFair ==
  /\ SpecRefresh
  /\ \A r \in HttpRequests : WF_vars(\E answer \in Answers : Respond(r, answer))
  /\ WF_vars(\E answer \in RefreshAnswers : RefreshRespond(answer))

----------------------------------------------------------------------------
(* The booking page: the fetch issued at every change of the barber. *)

(* The barber select changes; the effect on selectedBarber then calls      *)
(* fetchReservations, which sends GET /reservations with barberName.        *)
SelectBarber(barber) ==
  /\ barber # browser.selectedBarber
  /\ browser.issued < MaxFetches
  /\ browser' =
       [browser EXCEPT
          !.selectedBarber = barber,
          !.issued = @ + 1,
          !.fetches[browser.issued + 1] = [pc |-> "sent", barber |-> barber]]
  /\ last' = [op |-> "selectBarber", result |-> "ok"]
  /\ UNCHANGED <<reservations, nextId, catalog, tz, inflight>>

(* The server answers a fetch: findAll with the barberName of the query. *)
ServeFetch(i) ==
  LET f == browser.fetches[i]
  IN  /\ f.pc = "sent"
      /\ browser' =
           [browser EXCEPT
              !.fetches[i] =
                 [pc |-> "served", barber |-> f.barber,
                  rows |-> GetReservations(reservations, ScopeOf(BookingUser),
                                           [barberName |-> f.barber])]]
      /\ last' = [op |-> "serveFetch", result |-> "ok"]
      /\ UNCHANGED <<reservations, nextId, catalog, tz, inflight>>

(* The response of a fetch arrives: setReservations(fetchedReservations). *)
CompleteFetch(i) ==
  LET f == browser.fetches[i]
  IN  /\ f.pc = "served"
      /\ browser' =
           [browser EXCEPT
              !.bookingReservations = f.rows,
              !.fetches[i].pc = "done"]
      /\ last' = [op |-> "completeFetch", result |-> "ok"]
      /\ UNCHANGED <<reservations, nextId, catalog, tz, inflight>>

NextBooking ==
  \/ \E dto \in BookingDtos : Create(BookingUser, dto)
  \/ \E barber \in BARBERS : SelectBarber(barber)
  \/ \E i \in 1..MaxFetches : ServeFetch(i)
  \/ \E i \in 1..MaxFetches : CompleteFetch(i)

SpecBooking == Init /\ [][NextBooking]_vars

----------------------------------------------------------------------------
(* The login and registration forms behind their RateLimiter. *)

(* RateLimiter.isAllowed: the answer and the record left in the map. *)
IsAllowed(limiter, record, now) ==
  IF record = NoRecord \/ now > record.resetTime
  THEN [allowed |-> TRUE, record |-> [count |-> 1, resetTime |-> now + limiter.windowMs]]
  ELSE IF record.count >= limiter.maxAttempts
  THEN [allowed |-> FALSE, record |-> record]
  ELSE [allowed |-> TRUE, record |-> [record EXCEPT !.count = @ + 1]]

(* The times of a log that lie within the window ending now. *)
Recent(log, now, windowMs) == SelectSeq(log, LAMBDA t : t > now - windowMs)

(* A form submitted with valid input: the limiter is asked and the request *)
(* is sent only when it allows.                                             *)
Submit(name, phone) ==
  LET limiter == Limiters[name]
      now == browser.clock
      recent == Recent(browser.passed[name][phone], now, limiter.windowMs)
      answer == IsAllowed(limiter, browser.attempts[name][phone], now)
  IN  /\ browser' =
           [browser EXCEPT
              !.attempts[name][phone] = answer.record,
              !.passed[name][phone] =
                 IF answer.allowed THEN Append(recent, now) ELSE recent]
      /\ last' = [op |-> name,
                  result |-> IF answer.allowed THEN "sent" ELSE "rate-limit-exceeded"]
      /\ UNCHANGED <<reservations, nextId, catalog, tz, inflight>>

(* AuthProvider.login and AuthProvider.register. *)
Login(phone) == Submit("login", phone)

Register(phone) == Submit("register", phone)

(* Time passes in the browser. *)
Tick(step, maxClock) ==
  /\ browser.clock + step <= maxClock
  /\ browser' =
       [browser EXCEPT
          !.clock = @ + step,
          !.passed = [l \in DOMAIN Limiters |-> [k \in Phones |->
                        Recent(browser.passed[l][k], browser.clock + step,
                               Limiters[l].windowMs)]]]
  /\ last' = [op |-> "tick", result |-> "ok"]
  /\ UNCHANGED <<reservations, nextId, catalog, tz, inflight>>

NextAuth ==
  \/ \E phone \in Phones : Login(phone)
  \/ \E step \in LoginClockSteps : Tick(step, MaxLoginClock)

SpecAuth == Init /\ [][NextAuth]_vars

NextRegister ==
  \/ \E phone \in Phones : Register(phone)
  \/ \E step \in RegisterClockSteps : Tick(step, MaxRegisterClock)

SpecRegister == Init /\ [][NextRegister]_vars

----------------------------------------------------------------------------
(* Properties *)

Minutes(t) == t[1] * 60 + t[2]

(* Half-open interval overlap on "HH:MM" values. *)
IntervalsOverlap(startA, endA, startB, endB) ==
  Minutes(startA) < Minutes(endB) /\ Minutes(startB) < Minutes(endA)

Active(r) == r.status \in ActiveStatuses

TerminalStatuses == {"completed", "cancelled"}

LegalTransitions ==
  {<<"pending", "confirmed">>, <<"pending", "cancelled">>,
   <<"confirmed", "completed">>, <<"confirmed", "cancelled">>}

Stored(id) == CHOOSE r \in reservations : r.id = id

IsStored(id) == \E r \in reservations : r.id = id

(* C1: no two stored reservations of the same barber and date, both pending *)
(* or confirmed, have overlapping [startTime, endTime) intervals.           *)
NoDoubleBooking ==
  \A r1 \in reservations, r2 \in reservations :
    (r1.id # r2.id /\ r1.barberName = r2.barberName /\ r1.date = r2.date
       /\ Active(r1) /\ Active(r2))
    => ~IntervalsOverlap(r1.startTime, r1.endTime, r2.startTime, r2.endTime)

(* C2: of two creation requests in flight for the same barber and date with *)
(* overlapping intervals, at most one is saved.                             *)
AtMostOneSuccess ==
  \A p1 \in Procs, p2 \in Procs :
    (p1 # p2 /\ inflight[p1].pc = "saved" /\ inflight[p2].pc = "saved"
       /\ inflight[p1].data.barberName = inflight[p2].data.barberName
       /\ inflight[p1].data.date = inflight[p2].data.date)
    => ~IntervalsOverlap(inflight[p1].data.startTime, inflight[p1].data.endTime,
                         inflight[p2].data.startTime, inflight[p2].data.endTime)

(* C3: an update that asks a completed or cancelled reservation for another *)
(* status fails with invalid-transition and changes nothing.                *)
TerminalStatesAreTerminal ==
  [][\A id \in Ids, dto \in UpdateDtos :
       (/\ IsStored(id)
        /\ Stored(id).status \in TerminalStatuses
        /\ "status" \in DOMAIN dto
        /\ dto.status # Stored(id).status
        /\ UpdateReservation(id, dto))
       => (last'.result = "invalid-transition" /\ reservations' = reservations)]_vars

(* C4: from pending only confirmed or cancelled, from confirmed only        *)
(* completed or cancelled is accepted; an update asking a pending or        *)
(* confirmed reservation for any other status is rejected as                *)
(* invalid-transition and changes nothing.                                  *)
OnlyLegalTransitions ==
  [][\A id \in Ids, dto \in UpdateDtos :
       (/\ IsStored(id)
        /\ Stored(id).status \in ActiveStatuses
        /\ "status" \in DOMAIN dto
        /\ dto.status # Stored(id).status
        /\ <<Stored(id).status, dto.status>> \notin LegalTransitions
        /\ UpdateReservation(id, dto))
       => (last'.result = "invalid-transition" /\ reservations' = reservations)]_vars

(* The request would be admitted into an empty store: barber, date and      *)
(* services pass steps 1-6.                                                 *)
RequestIsValid(q) == CreateOutcome({}, catalog, tz, q) = "ok"

EndTimeOf(q) == ReservationData(catalog, tz, q).endTime

SameSlot(r, q) ==
  /\ r.barberName = q.barberName
  /\ r.date = ParseDate(q.date)
  /\ r.startTime = q.startTime
  /\ r.serviceIds = ResolveServiceIds(q)

SameBarberAndDate(r, q) ==
  r.barberName = q.barberName /\ r.date = ParseDate(q.date)

NoActiveOverlap(q, endTime) ==
  \A r \in reservations :
    (Active(r) /\ SameBarberAndDate(r, q))
    => ~IntervalsOverlap(q.startTime, endTime, r.startTime, r.endTime)

(* C5: once a reservation is cancelled, a creation request for its very     *)
(* barber, date, start time and services is admitted; the cancelled record  *)
(* never causes a slot-conflict (only a pending or confirmed reservation    *)
(* that overlaps the interval does).                                        *)
CancellationFreesSlot ==
  \A q \in Requests :
    (/\ \E r \in reservations : r.status = "cancelled" /\ SameSlot(r, q)
     /\ RequestIsValid(q)
     /\ NoActiveOverlap(q, EndTimeOf(q)))
    => CreateOutcome(reservations, catalog, tz, q) = "ok"

(* A cancelled reservation and a later one, admitted into the same slot. *)
CancelledSlotRebooked ==
  /\ last = [op |-> "create", result |-> "ok"]
  /\ \E r1 \in reservations, r2 \in reservations :
       /\ r1.status = "cancelled" /\ r2.status = "pending" /\ r1.id < r2.id
       /\ r2.id = nextId - 1
       /\ r1.barberName = r2.barberName /\ r1.date = r2.date
       /\ r1.startTime = r2.startTime /\ r1.serviceIds = r2.serviceIds
       /\ r1.endTime = r2.endTime

(* The code's end-time arithmetic: start plus minutes, on the 24-hour dial. *)
ComputeEndTime(startTime, totalDuration) ==
  LET m == (Minutes(startTime) + totalDuration) % MinutesPerDay
  IN  <<m \div 60, m % 60>>

(* C6: every stored reservation has totalDuration equal to the sum of its   *)
(* services' durations and endTime equal to startTime plus totalDuration.   *)
DurationConsistency ==
  \A r \in reservations :
    /\ r.totalDuration = SumOver(r.services, "duration")
    /\ r.endTime = ComputeEndTime(r.startTime, r.totalDuration)

(* C7: every stored reservation ends strictly after it starts, on the same  *)
(* calendar date.                                                           *)
NoReservationSpansMidnight ==
  \A r \in reservations : Minutes(r.startTime) < Minutes(r.endTime)

(* C8: a creation stores its reservation as pending whatever the request    *)
(* carries, and leaves every other stored reservation as it was.            *)
CreatedAsPending ==
  [][last'.op = "create" =>
       /\ \A r \in reservations : r \in reservations'
       /\ \A r \in reservations' \ reservations : r.status = "pending"]_vars

(* A creation has just succeeded next to a reservation that is not pending. *)
CreatedPendingBesideOthers ==
  /\ last = [op |-> "create", result |-> "ok"]
  /\ \E r1 \in reservations, r2 \in reservations :
       r2.id = nextId - 1 /\ r2.status = "pending" /\ r1.status = "confirmed"

PastRequests == {q \in Requests : q.date < 0}

(* C9 as stated: a creation request dated before today is rejected with     *)
(* past-date whatever its other fields, and stores nothing.                 *)
PastDateAlwaysPastDate ==
  [][\A q \in PastRequests :
       CreateReservation(q)
       => (last'.result = "past-date" /\ reservations' = reservations)]_vars

ExpectedPastError(q) ==
  IF q.barberName \in BARBERS THEN "past-date" ELSE "invalid-barber"

(* C9 amended: a creation request dated before today is always rejected and *)
(* stores nothing; the error is past-date when the barber is a known one    *)
(* and invalid-barber otherwise.                                            *)
PastDateRejected ==
  /\ [](\A q \in PastRequests :
          CreateOutcome(reservations, catalog, tz, q) = ExpectedPastError(q))
  /\ [][(last'.op = "create" /\ last'.result \in {"past-date", "invalid-barber"})
         => reservations' = reservations]_vars

(* A request was rejected as past-date while reservations are stored. *)
PastDateSeen ==
  last = [op |-> "create", result |-> "past-date"] /\ reservations # {}

(* The request q and the stored reservation r touch end-to-start: q starts *)
(* where r ends, or q starts before r and ends where r starts.              *)
Touches(q, r) ==
  \/ r.endTime = q.startTime
  \/ (TimeLT(q.startTime, r.startTime) /\ r.startTime = EndTimeOf(q))

(* C10: a valid request that touches an active reservation of its barber    *)
(* and date end-to-start (either way round) and overlaps no active          *)
(* reservation is admitted.                                                 *)
BackToBackSucceeds ==
  \A q \in Requests :
    (/\ \E r \in reservations : Active(r) /\ SameBarberAndDate(r, q) /\ Touches(q, r)
     /\ RequestIsValid(q)
     /\ NoActiveOverlap(q, EndTimeOf(q)))
    => CreateOutcome(reservations, catalog, tz, q) = "ok"

(* Two active reservations stored back to back, the later one just created. *)
BackToBackStored ==
  /\ last = [op |-> "create", result |-> "ok"]
  /\ \E r1 \in reservations, r2 \in reservations :
       /\ r2.id = nextId - 1 /\ r1.id # r2.id
       /\ Active(r1) /\ Active(r2)
       /\ r1.barberName = r2.barberName /\ r1.date = r2.date
       /\ (r1.endTime = r2.startTime \/ r2.endTime = r1.startTime)

RejectionResults ==
  {"invalid-barber", "past-date", "no-service-specified", "invalid-service",
   "degenerate-time-range", "slot-conflict"}

(* C11: a creation that fails with invalid-barber, past-date,               *)
(* no-service-specified, invalid-service, degenerate-time-range or          *)
(* slot-conflict leaves the set of stored reservations exactly as it was.   *)
RejectedCreationChangesNothing ==
  [][(last'.op = "create" /\ last'.result \in RejectionResults)
       => (reservations' = reservations /\ nextId' = nextId)]_vars

(* A creation was refused for a conflict with a stored reservation. *)
RejectedBesideStored ==
  last = [op |-> "create", result |-> "slot-conflict"] /\ reservations # {}

(* The request passes the barber, date and no-service checks, so that the  *)
(* catalog lookup is reached.                                               *)
ReachesServiceLookup(q) ==
  /\ q.barberName \in BARBERS
  /\ ~IsPastDate(ParseDate(q.date), tz)
  /\ ResolveServiceIds(q) # << >>

EveryIdResolves(q) == \A s \in Range(ResolveServiceIds(q)) : s \in DOMAIN catalog

(* C12: a creation whose catalog lookup is reached is rejected with         *)
(* invalid-service exactly when some requested service id does not resolve  *)
(* in the catalog, for every id list, one that repeats a valid id included. *)
ServiceResolution ==
  \A q \in Requests :
    ReachesServiceLookup(q)
    => ((CreateOutcome(reservations, catalog, tz, q) = "invalid-service")
          <=> ~EveryIdResolves(q))

(* C13: an update or a removal of a catalog service leaves every stored     *)
(* reservation's services, totalDuration and totalPrice as they were.       *)
SnapshotImmutable ==
  [][last'.op \in {"service-update", "service-remove"} =>
       \A r \in reservations :
         \E r2 \in reservations' :
           /\ r2.id = r.id
           /\ r2.services = r.services
           /\ r2.totalDuration = r.totalDuration
           /\ r2.totalPrice = r.totalPrice]_vars

(* The catalog was edited and a stored snapshot now differs from it: its   *)
(* service has another price, or is gone.                                   *)
SnapshotOutlivesCatalog ==
  /\ last.op \in {"service-update", "service-remove"}
  /\ last.result = "ok"
  /\ \E r \in reservations :
       \E i \in 1..Len(r.services) :
         \/ r.services[i].serviceId \notin DOMAIN catalog
         \/ r.services[i].price # catalog[r.services[i].serviceId].price

MayChangeStatus(caller, r, status) ==
  r.clientId = caller.sub /\ r.status = "pending" /\ status = "cancelled"

(* C15: a status change asked by a caller who is not an admin is accepted   *)
(* only for the caller's own pending reservation and the status cancelled;  *)
(* every other one is rejected and leaves the reservation unchanged.        *)
TransitionAuthorization ==
  [][\A caller \in Callers, id \in Ids, dto \in CallerUpdateDtos :
       (/\ caller.role # "admin"
        /\ IsStored(id)
        /\ dto.status # Stored(id).status
        /\ ~MayChangeStatus(caller, Stored(id), dto.status)
        /\ Update(caller, id, dto))
       => (last'.result # "ok" /\ reservations' = reservations)]_vars

(* C16: a delete asked by a caller who is not an admin is rejected and the  *)
(* reservation stays stored, the caller's own included.                     *)
DeleteIsAdminOnly ==
  [][\A caller \in Callers, id \in Ids :
       (caller.role # "admin" /\ IsStored(id) /\ Remove(caller, id))
       => (last'.result # "ok" /\ reservations' = reservations)]_vars

(* C17: after a cancellation through an operation of the client, be it     *)
(* cancelReservation or the status update to cancelled, the reservation is  *)
(* still stored, with status cancelled.                                     *)
CancellationKeepsRecord ==
  [][\A caller \in Callers, id \in Ids :
       (/\ IsStored(id)
        /\ \/ CancelReservation(caller, id)
           \/ Update(caller, id, [status |-> "cancelled"]))
       => \E r \in reservations' : r.id = id /\ r.status = "cancelled"]_vars

NamesInactiveService(q) ==
  \E s \in Range(ResolveServiceIds(q)) : s \in DOMAIN catalog /\ ~catalog[s].isActive

(* C18: a creation request naming a service whose isActive is false is      *)
(* rejected, although the service id resolves in the catalog.               *)
InactiveNotBookable ==
  \A q \in CatalogRequests :
    NamesInactiveService(q) => CreateOutcome(reservations, catalog, tz, q) # "ok"

(* The reservations of a cell: same barber, same calendar date, same start *)
(* time.                                                                    *)
MatchingReservations(rows, cell) ==
  {r \in rows : /\ r.barberName = cell.barberId
                /\ r.date = ParseDate(cell.day)
                /\ r.startTime = cell.startTime}

OccupyingStatuses == {"confirmed", "pending", "completed"}

StatusLabel(status) ==
  CASE status = "confirmed" -> "Confirmed"
    [] status = "pending" -> "Pending"
    [] status = "completed" -> "Completed"
    [] OTHER -> "Available"

(* The start instant of a cell in the browser's zone, and whether it lies  *)
(* before the instant of the render.                                        *)
CellStart(cell, offset) ==
  GridDate(cell.day, offset) + Minutes(cell.startTime)

CellIsPast(cell, now, offset) == CellStart(cell, offset) < now

(* C19: a rendered cell with a matching reservation that is confirmed,     *)
(* pending or completed shows that status, as the slot's status or as the   *)
(* button's label, and is unavailable.                                      *)
OccupiedCellShowsStatus ==
  last.op = "render" =>
    LET occupying ==
          {r \in MatchingReservations(FetchedBy(last.caller), last.cell) :
             r.status \in OccupyingStatuses}
    IN  occupying # {} =>
          /\ \E r \in occupying :
               last.slot.status = r.status \/ last.button.text = StatusLabel(r.status)
          /\ ~last.slot.isAvailable
          /\ last.button.isDisabled

(* C20: a rendered cell that is not past and whose only matching           *)
(* reservation is cancelled is projected as available, with isAvailable     *)
(* true and the booking button enabled.                                     *)
CancelledCellIsAvailable ==
  last.op = "render" =>
    LET matching == MatchingReservations(FetchedBy(last.caller), last.cell)
    IN  (/\ ~CellIsPast(last.cell, last.now, last.offset)
         /\ \E r \in matching : matching = {r} /\ r.status = "cancelled")
        => /\ last.slot.status = "available"
           /\ last.slot.isAvailable
           /\ ~last.button.isDisabled

CellIsToday(cell, now, offset) == cell.day = LocalDay(now, offset)

(* C21: a rendered cell of today that no reservation occupies is projected *)
(* as past exactly when its start is before the instant of the render, and  *)
(* once its start has elapsed it is not offered as available.               *)
TodayPastWhenElapsed ==
  last.op = "render" =>
    ((/\ CellIsToday(last.cell, last.now, last.offset)
      /\ MatchingReservations(FetchedBy(last.caller), last.cell) = {})
     => /\ (last.slot.status = "past") <=> CellIsPast(last.cell, last.now, last.offset)
        /\ CellIsPast(last.cell, last.now, last.offset)
             => (~last.slot.isAvailable /\ last.button.isDisabled))

OccupyingReservations(rows, cell) ==
  {r \in MatchingReservations(rows, cell) : r.status \in OccupyingStatuses}

(* C22: a rendered cell whose start is before the instant of the render    *)
(* and that a pending, confirmed or completed reservation occupies is not   *)
(* projected as past; it shows that reservation's status.                   *)
PastOnlyWhenUnoccupied ==
  last.op = "render" =>
    LET occupying == OccupyingReservations(FetchedBy(last.caller), last.cell)
    IN  (CellIsPast(last.cell, last.now, last.offset) /\ occupying # {})
        => /\ last.slot.status # "past"
           /\ \E r \in occupying :
                last.slot.status = r.status \/ last.button.text = StatusLabel(r.status)

(* The projection of one cell from a reservation list. *)
ProjectCell(rows, now, offset, cell) ==
  GetSlotForDateTime(CalendarSlots(rows), {}, now, offset,
                     cell.barberId, GridDate(cell.day, offset), cell.startTime)

IsOwnCell(r, cell) == MatchingReservations({r}, cell) # {}

(* C23: for a fixed instant and browser, a step that changes the status of *)
(* one reservation changes the projected status of no cell other than that  *)
(* reservation's own (barber, date, start time).                            *)
ProjectionLocality ==
  [][\A r \in reservations, r2 \in reservations' :
       (/\ r2.id = r.id
        /\ r2.status # r.status
        /\ reservations' = (reservations \ {r}) \cup {r2})
       => \A now \in Nows, offset \in ClientTzOffsets, cell \in GridCells :
            ~IsOwnCell(r, cell)
            => ProjectCell(reservations', now, offset, cell).status
                 = ProjectCell(reservations, now, offset, cell).status]_vars

CellOf(r) ==
  [barberId |-> r.barberName, day |-> r.date \div MinutesPerDay, startTime |-> r.startTime]

Clients == {caller \in Callers : caller.role # "admin"}

(* C24: once a reservation is stored as pending or confirmed, the calendar *)
(* built from the next fetch of any client's booking page, the clients who  *)
(* do not own the reservation included, shows its cell as unavailable.      *)
VisibleToEveryClient ==
  \A r \in reservations :
    (Active(r) /\ CellOf(r) \in GridCells)
    => \A caller \in Clients, now \in Nows, offset \in ClientTzOffsets :
         ~ProjectCell(FetchedBy(caller), now, offset, CellOf(r)).isAvailable

(* C25: for every phone number, during any window of the limiter (15       *)
(* minutes for login, one hour for registration) at most maxAttempts (5,    *)
(* 3) attempts pass it.                                                     *)
AttemptsLimitedPerWindow ==
  \A l \in DOMAIN Limiters, phone \in Phones :
    Len(browser.passed[l][phone]) <= Limiters[l].maxAttempts

(* C26: a rendered cell that is not past and that some pending or          *)
(* confirmed reservation of the fetched list matches is projected as        *)
(* unavailable, whatever else the list holds for that cell.                 *)
ActivelyBookedNeverOffered ==
  last.op = "render" =>
    LET booked == {r \in MatchingReservations(FetchedBy(last.caller), last.cell) :
                     Active(r)}
    IN  (~CellIsPast(last.cell, last.now, last.offset) /\ booked # {})
        => /\ ~last.slot.isAvailable
           /\ last.slot.status # "available"
           /\ last.button.isDisabled

(* The pending and confirmed reservations of a cell's barber and date whose *)
(* [startTime, endTime) interval holds the cell's start time.                *)
CoveringReservations(rows, cell) ==
  {r \in rows : /\ Active(r)
                /\ r.barberName = cell.barberId
                /\ r.date = ParseDate(cell.day)
                /\ Minutes(r.startTime) <= Minutes(cell.startTime)
                /\ Minutes(cell.startTime) < Minutes(r.endTime)}

(* C28: a cell rendered as available from a fresh fetch has a start time   *)
(* that lies in the interval of no pending or confirmed reservation of its  *)
(* barber and date.                                                         *)
AvailableMeansBookable ==
  (last.op = "render" /\ last.slot.isAvailable)
    => CoveringReservations(FetchedBy(last.caller), last.cell) = {}

(* C27: when handleStatusUpdate's API call has failed and its follow-up    *)
(* fetchReservations has completed with the server's list, the status the   *)
(* Dashboard holds for that reservation is the server's status.             *)
OptimisticUpdateReverted ==
  (last.op = "statusUpdate" /\ last.result = "error" /\ last.fetched)
    => \A r \in browser.held : r.id = last.id =>
         \E q \in reservations : q.id = r.id /\ q.status = r.status

(* A request that received 401 and waits for the refresh: on failedQueue,  *)
(* or awaiting authApi.refreshToken.                                        *)
AwaitsRefresh(r) == browser.requests[r].pc \in {"queued", "refreshing"}

(* C29: every request that received 401 is eventually sent again or        *)
(* rejected, the refresh request does not stay on failedQueue, and          *)
(* isRefreshing eventually returns to false.                                *)
TokenRefreshSettles ==
  /\ \A r \in HttpRequests : AwaitsRefresh(r) ~> ~AwaitsRefresh(r)
  /\ (browser.failedQueue # << >>) ~> (browser.failedQueue = << >>)
  /\ browser.isRefreshing ~> ~browser.isRefreshing

(* Unless POST /auth/refresh is answered with 401, every waiting request  *)
(* leaves its wait.                                                         *)
SettlesUnlessRefreshUnauthorized ==
  (\E r \in HttpRequests : AwaitsRefresh(r)) ~>
    (browser.refresh = "queued" \/ \A r \in HttpRequests : ~AwaitsRefresh(r))

(* Every fetch the booking page has issued is completed, and the barber    *)
(* was changed while an earlier fetch was in flight: there are at least     *)
(* two fetches.                                                             *)
AllFetchesCompleted ==
  /\ browser.issued >= 2
  /\ \A i \in 1..browser.issued : browser.fetches[i].pc = "done"

(* C30: once every fetch of the booking page has completed, the            *)
(* reservations it holds are the response of the fetch issued last, the     *)
(* one for the barber now selected.                                         *)
LatestFetchWins ==
  AllFetchesCompleted =>
    browser.bookingReservations = browser.fetches[browser.issued].rows

============================================================================
